---- MODULE Spec2Model ----
(***************************************************************************)
(* Model of txt2epub.py: the EpubGenerator pipeline                        *)
(*   parse_txt -> create_epub_structure -> generate_chapters ->            *)
(*   generate_toc -> generate_content_opf -> zip_epub                      *)
(* over an input text file, a scratch tree 'epub/' and an output archive.  *)
(*                                                                         *)
(* Text is modelled character by character: a string is a sequence of      *)
(* one-character tokens.  Characters outside ASCII are written by name:    *)
(*   "BAR" U+2501   "FWSP" U+3000 (full-width space)                       *)
(*   "FWCOLON" U+FF1A   "FWCOMMA" U+FF0C   "LQ" U+300C   "RQ" U+300D       *)
(*   "JUAN" "MING" "SHU" "ZUO" "ZHE" "JI" "JIAN" "JIE" : the CJK letters   *)
(*   of the volume marker and of the three metadata markers.               *)
(* "NL" is the newline character and "TAB" the tabulator.                  *)
(***************************************************************************)
EXTENDS Integers, Sequences, FiniteSets, TLC

(***************************************************************************)
(* Bounds of the model.                                                    *)
(***************************************************************************)
\* the longest input of a single run
MaxLines == 4

\* the longest input when the pipeline is run repeatedly
MaxRunLines == 2

\* the number of runs of the pipeline
MaxRuns == 2

(***************************************************************************)
(* Python string primitives, on sequences of characters.                   *)
(***************************************************************************)
\* str.isspace() characters that occur in the model's alphabet
Whitespace == {" ", "FWSP", "TAB", "NL"}

\* s.startswith(p)
StartsWith(s, p) == Len(s) >= Len(p) /\ SubSeq(s, 1, Len(p)) = p

\* s.rstrip('\n')
RECURSIVE RStripNL(_)
RStripNL(s) ==
    IF s # <<>> /\ s[Len(s)] = "NL" THEN RStripNL(SubSeq(s, 1, Len(s) - 1)) ELSE s

RECURSIVE LStrip(_)
LStrip(s) == IF s # <<>> /\ Head(s) \in Whitespace THEN LStrip(Tail(s)) ELSE s

RECURSIVE RStrip(_)
RStrip(s) ==
    IF s # <<>> /\ s[Len(s)] \in Whitespace THEN RStrip(SubSeq(s, 1, Len(s) - 1)) ELSE s

\* s.strip()
Strip(s) == RStrip(LStrip(s))

\* s[4:-1]
Slice4m1(s) == SubSeq(s, 5, Len(s) - 1)

\* str(n) for a natural number n, in decimal
Digit(d) == <<"0", "1", "2", "3", "4", "5", "6", "7", "8", "9">>[d + 1]

RECURSIVE Str(_)
Str(n) == IF n < 10 THEN <<Digit(n)>> ELSE Str(n \div 10) \o <<Digit(n % 10)>>

\* s.split('.')[0]
RECURSIVE SplitDot0(_)
SplitDot0(s) ==
    IF s = <<>> \/ Head(s) = "." THEN <<>> ELSE <<Head(s)>> \o SplitDot0(Tail(s))

(***************************************************************************)
(* Literals of parse_txt.                                                  *)
(***************************************************************************)
Delimiter == <<"BAR", "BAR", "BAR", "BAR", "BAR", "BAR", "BAR", "BAR", "BAR">>

TitleMarker == <<"LQ", "SHU", "MING", "FWCOLON">>

AuthorMarker == <<"LQ", "ZUO", "ZHE", "FWCOLON">>

DescriptionMarker == <<"LQ", "SHU", "JI", "JIAN", "JIE", "FWCOLON">>

VolumePrefix == <<"[", "JUAN", "MING", "]", " ">>

\* a volume pattern without the (.+) of the title
volume_match_prefix_only(line) == StartsWith(line, VolumePrefix)

\* volume_pattern.match(line): ^\[..\] (.+)$ on a line without newline
volume_match(line) ==
    /\ StartsWith(line, VolumePrefix)
    /\ Len(line) >= Len(VolumePrefix) + 1
    /\ \A k \in 1..Len(line) : line[k] # "NL"

\* the whole match instead of the group
volume_group0(line) == line

\* volume_match.group(1)
volume_group1(line) == SubSeq(line, Len(VolumePrefix) + 1, Len(line))

\* a chapter test without the indentation test
chapter_header_any_nonblank(line) == Strip(line) # <<>>

\* not line.startswith((' ', FWSP)) and stripped_line != ''
chapter_header(line) ==
    /\ ~StartsWith(line, <<" ">>)
    /\ ~StartsWith(line, <<"FWSP">>)
    /\ Strip(line) # <<>>

DefaultTitle == <<"D", "T">>

DefaultAuthor == <<"D", "A">>

None == <<>>

(***************************************************************************)
(* The input lines the model draws from (without their newline).           *)
(***************************************************************************)
LinePool ==
    { Delimiter,
      TitleMarker \o <<"T", "RQ">>,
      AuthorMarker \o <<"U", "RQ">>,
      DescriptionMarker,
      VolumePrefix \o <<"A">>,
      VolumePrefix,
      <<"c">>,
      <<" ", "p", "FWCOLON">>,
      <<"FWSP">>,
      <<>> }

Texts(maxLen) == UNION { [1..n -> LinePool] : n \in 0..maxLen }

Inputs == Texts(MaxLines)

RunInputs == Texts(MaxRunLines)

\* texts with one metadata block: the delimiter line, then a title line, an
\* author line, a description-marker line and a text line, the title line,
\* the author line and the text line each present or not
MetaTitleLines ==
    { TitleMarker \o <<"T", "RQ">>, TitleMarker \o <<"T">>,
      TitleMarker \o <<"T", "RQ", " ">> }

MetaAuthorLines ==
    { AuthorMarker \o <<"U", "RQ">>, AuthorMarker \o <<"U">>,
      AuthorMarker \o <<"U", "RQ", " ">> }

MetaDescriptionLines == { DescriptionMarker, DescriptionMarker \o <<"RQ">> }

MetaTextLines == { <<" ", "d", " ">>, <<"d">>, <<>> }

Optional(S) == {<<>>} \cup {<<line>> : line \in S}

MetaInputs ==
    { <<Delimiter>> \o title \o author \o <<description>> \o text :
        title \in Optional(MetaTitleLines),
        author \in Optional(MetaAuthorLines),
        description \in MetaDescriptionLines,
        text \in Optional(MetaTextLines) }

\* texts of one volume with one chapter of one content line: an indented
\* image tag put together from well-formed and ill-formed parts, and what
\* follows the tag
ImageLines ==
    { <<" ">> \o open \o width \o sep \o height \o <<"]">> \o src \o close \o rest :
        open \in {<<"[", "i", "m", "g", "=">>, <<"[", "I", "M", "G", "=">>,
                  <<"[", "i", "m", "=">>},
        width \in {<<"1">>, <<"1", "2">>, <<>>},
        sep \in {<<>>, <<",">>, <<"FWCOMMA">>, <<" ">>, <<",", " ">>, <<";">>},
        height \in {<<"2">>, <<>>},
        src \in {<<"x">>, <<"FWCOLON">>},
        close \in {<<"[", "/", "i", "m", "g", "]">>, <<"[", "/", "I", "M", "G", "]">>,
                   <<>>},
        rest \in {<<>>, <<"FWCOLON">>,
                  <<"[", "i", "m", "g", "=", "3", " ", "4", "]", "y",
                    "[", "/", "i", "m", "g", "]">>} }

ImageInputs == { <<VolumePrefix \o <<"A">>, <<"c">>, line>> : line \in ImageLines }

\* the proper prefixes of a text
Truncations(t) == { SubSeq(t, 1, n) : n \in 0..(Len(t) - 1) }

\* f.readlines(): every line with its terminating newline
readlines(t) == [k \in 1..Len(t) |-> t[k] \o <<"NL">>]

\* the characters of an ASCII literal
Chars(s) == [k \in 1..Len(s) |-> SubSeq(s, k, k)]

(***************************************************************************)
(* State.                                                                  *)
(*   txt               the input file at txt_path, one entry per line      *)
(*   books, current_volume, current_chapter, manifest, spine, metadata     *)
(*                     the fields of the EpubGenerator instance; the two   *)
(*                     current pointers are None, <<v>> (the v-th dict of  *)
(*                     books) or <<v, c>> (its c-th chapter dict)          *)
(*   lines, i, metadata_section   the locals of parse_txt                  *)
(*   fs                the scratch tree: directory -> its files, in        *)
(*                     creation order, each [name, data]                   *)
(*   archive           the file at output_path: None or the zip entries    *)
(*   pc                the statement generate() is at                      *)
(*   exc               the exception that ended the last call, if any      *)
(*   calls             the calls of generate() made on this instance       *)
(*   runs              the calls of generate() made in all                 *)
(*   hist              what each completed run read and wrote              *)
(***************************************************************************)
VARIABLES txt, books, current_volume, current_chapter, manifest, spine,
          metadata, lines, i, metadata_section, fs, archive, pc, exc,
          calls, runs, hist

instance == <<books, current_volume, current_chapter, manifest, spine, metadata>>

locals == <<lines, i, metadata_section>>

vars == <<txt, books, current_volume, current_chapter, manifest, spine,
          metadata, lines, i, metadata_section, fs, archive, pc, exc,
          calls, runs, hist>>

\* EpubGenerator.__init__
init_fields(bs, cv, cc, mf, sp, md) ==
    /\ bs = <<>>
    /\ cv = None
    /\ cc = None
    /\ mf = <<>>
    /\ sp = <<>>
    /\ md = [title |-> DefaultTitle, author |-> DefaultAuthor, description |-> <<>>]

InitWith(texts) ==
    /\ txt \in texts
    /\ init_fields(books, current_volume, current_chapter, manifest, spine, metadata)
    /\ lines = <<>>
    /\ i = 0
    /\ metadata_section = FALSE
    /\ fs = <<>>
    /\ archive = None
    /\ pc = "idle"
    /\ exc = "none"
    /\ calls = 0
    /\ runs = 0
    /\ hist = <<>>

\* one conversion of any input
Init == InitWith(Inputs)

\* one conversion of a text with one metadata block
InitMeta == InitWith(MetaInputs)

\* one conversion of a text with an image line
InitImages == InitWith(ImageInputs)

\* repeated conversions, sharing the scratch tree
InitRuns == InitWith(RunInputs)

(***************************************************************************)
(* generate() is called on the instance; parse_txt opens the file.         *)
(***************************************************************************)
generate ==
    /\ pc \in {"idle", "done"}
    /\ lines' = readlines(txt)
    /\ i' = 0
    /\ metadata_section' = FALSE
    /\ pc' = "parse_txt"
    /\ calls' = calls + 1
    /\ runs' = runs + 1
    /\ UNCHANGED <<txt, instance, fs, archive, exc, hist>>

(***************************************************************************)
(* One iteration of the loop of parse_txt, on lines[i] (Python index).     *)
(***************************************************************************)
\* self.books.append(self.current_volume) with the new volume dict
new_volume(line) == [title |-> volume_group1(line), chapters |-> <<>>]

\* the new chapter dict
new_chapter(line) == [title |-> Strip(line), content |-> <<>>]

\* an append that puts the chapter into the volume twice
append_chapter_twice(bs, cv, chapter) ==
    [bs EXCEPT ![cv[1]].chapters = Append(Append(@, chapter), chapter)]

\* self.current_volume['chapters'].append(chapter)
append_chapter(bs, cv, chapter) ==
    [bs EXCEPT ![cv[1]].chapters = Append(@, chapter)]

\* an append of the trimmed line
append_content_trimmed(bs, cc, line) ==
    [bs EXCEPT ![cc[1]].chapters[cc[2]].content = Append(@, Strip(line))]

\* self.current_chapter['content'].append(line)
append_content(bs, cc, line) ==
    [bs EXCEPT ![cc[1]].chapters[cc[2]].content = Append(@, line)]

\* a metadata branch in which the author line also closes the block
parse_metadata_author_closes(line) ==
    /\ IF StartsWith(line, TitleMarker)
         THEN /\ metadata' = [metadata EXCEPT !.title = Slice4m1(line)]
              /\ UNCHANGED metadata_section
         ELSE IF StartsWith(line, AuthorMarker)
         THEN /\ metadata' = [metadata EXCEPT !.author = Slice4m1(line)]
              /\ metadata_section' = FALSE
         ELSE IF StartsWith(line, DescriptionMarker)
         THEN /\ metadata' = [metadata EXCEPT !.description = Strip(lines[i + 2])]
              /\ metadata_section' = FALSE
         ELSE UNCHANGED <<metadata, metadata_section>>
    /\ UNCHANGED <<books, current_volume, current_chapter>>

\* lines 38-46: the branch taken while metadata_section is set
parse_metadata(line) ==
    /\ IF StartsWith(line, TitleMarker)
         THEN /\ metadata' = [metadata EXCEPT !.title = Slice4m1(line)]
              /\ UNCHANGED metadata_section
         ELSE IF StartsWith(line, AuthorMarker)
         THEN /\ metadata' = [metadata EXCEPT !.author = Slice4m1(line)]
              /\ UNCHANGED metadata_section
         ELSE IF StartsWith(line, DescriptionMarker)
         THEN /\ metadata' = [metadata EXCEPT !.description = Strip(lines[i + 2])]
              /\ metadata_section' = FALSE
         ELSE UNCHANGED <<metadata, metadata_section>>
    /\ UNCHANGED <<books, current_volume, current_chapter>>

\* a scanning branch whose volume header leaves self.current_chapter alone
parse_scanning_keeps_chapter(line) ==
    /\ IF volume_match(line)
         THEN /\ books' = Append(books, new_volume(line))
              /\ current_volume' = <<Len(books) + 1>>
              /\ UNCHANGED current_chapter
         ELSE IF current_volume # None
         THEN IF chapter_header(line)
              THEN /\ books' = append_chapter(books, current_volume, new_chapter(line))
                   /\ current_chapter' =
                          <<current_volume[1],
                            Len(books[current_volume[1]].chapters) + 1>>
                   /\ UNCHANGED current_volume
              ELSE IF current_chapter # None
              THEN /\ books' = append_content(books, current_chapter, line)
                   /\ UNCHANGED <<current_volume, current_chapter>>
              ELSE UNCHANGED <<books, current_volume, current_chapter>>
         ELSE UNCHANGED <<books, current_volume, current_chapter>>
    /\ UNCHANGED <<metadata, metadata_section>>

\* lines 49-65: the branch taken while scanning
parse_scanning(line) ==
    /\ IF volume_match(line)
         THEN /\ books' = Append(books, new_volume(line))
              /\ current_volume' = <<Len(books) + 1>>
              /\ current_chapter' = None
         ELSE IF current_volume # None
         THEN IF chapter_header(line)
              THEN /\ books' = append_chapter(books, current_volume, new_chapter(line))
                   /\ current_chapter' =
                          <<current_volume[1],
                            Len(books[current_volume[1]].chapters) + 1>>
                   /\ UNCHANGED current_volume
              ELSE IF current_chapter # None
              THEN /\ books' = append_content(books, current_chapter, line)
                   /\ UNCHANGED <<current_volume, current_chapter>>
              ELSE UNCHANGED <<books, current_volume, current_chapter>>
         ELSE UNCHANGED <<books, current_volume, current_chapter>>
    /\ UNCHANGED <<metadata, metadata_section>>

\* lines[i+1] of line 44 is past the end of the list
description_index_error(line) ==
    /\ line # Delimiter
    /\ metadata_section
    /\ ~StartsWith(line, TitleMarker)
    /\ ~StartsWith(line, AuthorMarker)
    /\ StartsWith(line, DescriptionMarker)
    /\ i + 2 > Len(lines)

parse_txt_line ==
    /\ pc = "parse_txt"
    /\ i < Len(lines)
    /\ LET line == RStripNL(lines[i + 1]) IN
         /\ ~description_index_error(line)
         /\ IF line = Delimiter
              THEN /\ metadata_section' = TRUE
                   /\ UNCHANGED <<books, current_volume, current_chapter, metadata>>
              ELSE IF metadata_section
              THEN parse_metadata(line)
              ELSE parse_scanning(line)
    /\ i' = i + 1
    /\ UNCHANGED <<txt, manifest, spine, lines, fs, archive, pc, exc,
                   calls, runs, hist>>

\* the IndexError of line 44 leaves parse_txt and generate
parse_txt_raise ==
    /\ pc = "parse_txt"
    /\ i < Len(lines)
    /\ description_index_error(RStripNL(lines[i + 1]))
    /\ pc' = "crashed"
    /\ exc' = "IndexError"
    /\ lines' = <<>>
    /\ i' = 0
    /\ metadata_section' = FALSE
    /\ UNCHANGED <<txt, instance, fs, archive, calls, runs, hist>>

\* the loop is over: parse_txt returns
parse_txt_return ==
    /\ pc = "parse_txt"
    /\ i = Len(lines)
    /\ pc' = "create_epub_structure"
    /\ lines' = <<>>
    /\ i' = 0
    /\ metadata_section' = FALSE
    /\ UNCHANGED <<txt, instance, fs, archive, exc, calls, runs, hist>>

(***************************************************************************)
(* The scratch tree.                                                       *)
(***************************************************************************)
\* os.makedirs(d, exist_ok=True) of a directory under 'epub'
makedirs(f, d) ==
    LET g == IF "epub" \in DOMAIN f THEN f ELSE f @@ ("epub" :> <<>>)
    IN  IF d \in DOMAIN g THEN g ELSE g @@ (d :> <<>>)

\* open(d/name, 'w') ... f.write(data): an existing file keeps its place
write_file(f, d, name, data) ==
    IF \E k \in 1..Len(f[d]) : f[d][k].name = name
    THEN [f EXCEPT ![d] = [k \in 1..Len(f[d]) |->
                              IF f[d][k].name = name
                              THEN [name |-> name, data |-> data]
                              ELSE f[d][k]]]
    ELSE [f EXCEPT ![d] = Append(@, [name |-> name, data |-> data])]

mimetype == Chars("mimetype")

create_epub_structure ==
    /\ pc = "create_epub_structure"
    /\ LET f1 == makedirs(makedirs(fs, "epub/OEBPS"), "epub/META-INF")
           f2 == write_file(f1, "epub", mimetype,
                            [kind |-> "text", text |-> Chars("application/epub+zip")])
       IN  fs' = write_file(f2, "epub/META-INF", Chars("container.xml"),
                            [kind |-> "container",
                             full_path |-> Chars("OEBPS/content.opf"),
                             media_type |-> Chars("application/oebps-package+xml")])
    /\ pc' = "generate_chapters"
    /\ UNCHANGED <<txt, instance, locals, archive, exc, calls, runs, hist>>

(***************************************************************************)
(* process_images: the colon replacement, then the substitution of         *)
(*   \[img=(\d+)[FWCOMMA, ]*(\d+)\](.*?)\[/img\]   (re.IGNORECASE)         *)
(***************************************************************************)
Digits == {"0", "1", "2", "3", "4", "5", "6", "7", "8", "9"}

Separators == {"FWCOMMA", ",", " "}

\* text.replace(FWCOLON, ':')
replace_colon(text) ==
    [k \in 1..Len(text) |-> IF text[k] = "FWCOLON" THEN ":" ELSE text[k]]

\* the length of the longest run of characters of set S in t from position p
RECURSIVE Run(_, _, _)
Run(t, p, S) == IF p <= Len(t) /\ t[p] \in S THEN 1 + Run(t, p + 1, S) ELSE 0

\* t has the literal lit at position p, letters compared without case
Upper(c) == IF c = "i" THEN "I" ELSE IF c = "m" THEN "M" ELSE IF c = "g" THEN "G" ELSE c

LiteralAt(t, p, lit) ==
    /\ p + Len(lit) - 1 <= Len(t)
    /\ \A k \in 1..Len(lit) : Upper(t[p + k - 1]) = Upper(lit[k])

\* the first position >= p where the closing tag starts, 0 if there is none
RECURSIVE FindClose(_, _)
FindClose(t, p) ==
    IF p > Len(t) \/ t[p] = "NL" THEN 0
    ELSE IF LiteralAt(t, p, Chars("[/img]")) THEN p
    ELSE FindClose(t, p + 1)

\* img_pattern matched at the head of t: the groups and the length matched
img_match(t) ==
    LET n1  == Run(t, 6, Digits)
        q   == 6 + n1
        ns  == Run(t, q, Separators)
        n2  == Run(t, q + ns, Digits)
        \* the position of the closing bracket of the opening tag
        rb  == IF ns > 0 THEN q + ns + n2 ELSE q
        dimsOk == /\ LiteralAt(t, 1, Chars("[img="))
                  /\ IF ns > 0 THEN n1 >= 1 /\ n2 >= 1 ELSE n1 >= 2
                  /\ rb <= Len(t) /\ t[rb] = "]"
        e   == IF dimsOk THEN FindClose(t, rb + 1) ELSE 0
    IN  IF e = 0 THEN [ok |-> FALSE]
        ELSE [ok |-> TRUE,
              g1 |-> IF ns > 0 THEN SubSeq(t, 6, q - 1) ELSE SubSeq(t, 6, q - 2),
              g2 |-> IF ns > 0 THEN SubSeq(t, q + ns, rb - 1) ELSE SubSeq(t, q - 1, q - 1),
              g3 |-> SubSeq(t, rb + 1, e - 1),
              len |-> e + 5]

\* img_pattern.sub(r'<img src="\3" width="\1" height="\2"/>', t)
RECURSIVE img_sub(_)
img_sub(t) ==
    IF t = <<>> THEN <<>>
    ELSE LET m == img_match(t)
         IN  IF m.ok
             THEN Chars("<img src=\"") \o m.g3 \o Chars("\" width=\"") \o m.g1
                    \o Chars("\" height=\"") \o m.g2 \o Chars("\"/>")
                    \o img_sub(SubSeq(t, m.len + 1, Len(t)))
             ELSE <<Head(t)>> \o img_sub(Tail(t))

process_images(text) == img_sub(replace_colon(text))

(***************************************************************************)
(* generate_chapters                                                       *)
(***************************************************************************)
\* a file name with the two indices exchanged
chapter_filename_swapped(vol_idx, chap_idx) ==
    Chars("vol") \o Str(chap_idx) \o Chars("_chap") \o Str(vol_idx) \o Chars(".xhtml")

\* f'vol{vol_idx}_chap{chap_idx}.xhtml'
chapter_filename(vol_idx, chap_idx) ==
    Chars("vol") \o Str(vol_idx) \o Chars("_chap") \o Str(chap_idx) \o Chars(".xhtml")

\* the two nested enumerate loops, from volume vol_idx on
RECURSIVE enumerate_chapters(_, _)
enumerate_chapters(bs, vol_idx) ==
    IF vol_idx > Len(bs) THEN <<>>
    ELSE [chap_idx \in 1..Len(bs[vol_idx].chapters) |->
             [vol_idx |-> vol_idx, chap_idx |-> chap_idx,
              chapter |-> bs[vol_idx].chapters[chap_idx]]]
         \o enumerate_chapters(bs, vol_idx + 1)

manifest_entry(filename) ==
    [id |-> SplitDot0(filename), href |-> filename,
     media_type |-> Chars("application/xhtml+xml")]

spine_entry(filename) == [idref |-> SplitDot0(filename)]

\* a content list that leaves blank lines out
paragraph_skip_blank(para) ==
    IF Strip(para) = <<>>
    THEN <<>>
    ELSE Chars("<p>") \o process_images(para) \o Chars("</p>")

\* one element of the content list
paragraph(para) ==
    IF Strip(para) = <<>>
    THEN Chars("<p>") \o <<"&#160;">> \o Chars("</p>")
    ELSE Chars("<p>") \o process_images(para) \o Chars("</p>")

\* "".join(content)
RECURSIVE join_paragraphs(_)
join_paragraphs(content) ==
    IF content = <<>> THEN <<>>
    ELSE paragraph(Head(content)) \o join_paragraphs(Tail(content))

\* the document written for a chapter
xhtml(chapter) ==
    [kind |-> "xhtml", title |-> chapter.title, h2 |-> chapter.title,
     body |-> join_paragraphs(chapter.content)]

\* the files written by the loop over the enumerated chapters es
RECURSIVE write_chapters(_, _)
write_chapters(f, es) ==
    IF es = <<>> THEN f
    ELSE write_chapters(
             write_file(f, "epub/OEBPS",
                        chapter_filename(Head(es).vol_idx, Head(es).chap_idx),
                        xhtml(Head(es).chapter)),
             Tail(es))

generate_chapters ==
    /\ pc = "generate_chapters"
    /\ LET es == enumerate_chapters(books, 1) IN
         /\ manifest' = manifest \o
                [k \in 1..Len(es) |->
                    manifest_entry(chapter_filename(es[k].vol_idx, es[k].chap_idx))]
         /\ spine' = spine \o
                [k \in 1..Len(es) |->
                    spine_entry(chapter_filename(es[k].vol_idx, es[k].chap_idx))]
         /\ fs' = write_chapters(fs, es)
    /\ pc' = "generate_toc"
    /\ UNCHANGED <<txt, books, current_volume, current_chapter, metadata,
                   locals, archive, exc, calls, runs, hist>>

(***************************************************************************)
(* generate_toc: the navigation points of toc.ncx in document order; a     *)
(* volume point has depth 1 and encloses the chapter points (depth 2)      *)
(* that follow it.                                                         *)
(***************************************************************************)
nav_point(nav_id, label, src, depth) ==
    [id |-> Chars("nav") \o Str(nav_id), playOrder |-> Str(nav_id),
     label |-> label, src |-> src, depth |-> depth]

\* a loop that does not count the point of the volume
RECURSIVE toc_points_volume_uncounted(_, _, _)
toc_points_volume_uncounted(bs, vol_idx, nav_id) ==
    IF vol_idx > Len(bs) THEN <<>>
    ELSE LET chapters == bs[vol_idx].chapters IN
         <<nav_point(nav_id, bs[vol_idx].title, chapter_filename(vol_idx, 1), 1)>>
         \o [chap_idx \in 1..Len(chapters) |->
                nav_point(nav_id + chap_idx, chapters[chap_idx].title,
                          chapter_filename(vol_idx, chap_idx), 2)]
         \o toc_points_volume_uncounted(bs, vol_idx + 1, nav_id + Len(chapters))

\* the loop over the volumes from vol_idx on, nav_id being the next number
RECURSIVE toc_points(_, _, _)
toc_points(bs, vol_idx, nav_id) ==
    IF vol_idx > Len(bs) THEN <<>>
    ELSE LET chapters == bs[vol_idx].chapters IN
         <<nav_point(nav_id, bs[vol_idx].title, chapter_filename(vol_idx, 1), 1)>>
         \o [chap_idx \in 1..Len(chapters) |->
                nav_point(nav_id + chap_idx, chapters[chap_idx].title,
                          chapter_filename(vol_idx, chap_idx), 2)]
         \o toc_points(bs, vol_idx + 1, nav_id + 1 + Len(chapters))

generate_toc ==
    /\ pc = "generate_toc"
    /\ fs' = write_file(fs, "epub/OEBPS", Chars("toc.ncx"),
                        [kind |-> "ncx", docTitle |-> metadata.title,
                         navMap |-> toc_points(books, 1, 1)])
    /\ pc' = "generate_content_opf"
    /\ UNCHANGED <<txt, instance, locals, archive, exc, calls, runs, hist>>

(***************************************************************************)
(* generate_content_opf (the dc:date element, the day of the run, is not   *)
(* part of the modelled document).                                         *)
(***************************************************************************)
toc_item ==
    [id |-> Chars("toc"), href |-> Chars("toc.ncx"),
     media_type |-> Chars("application/x-dtbncx+xml")]

content_opf ==
    [kind |-> "opf",
     title |-> metadata.title,
     language |-> Chars("zh-CN"),
     creator |-> metadata.author,
     description |-> metadata.description,
     manifest |-> <<toc_item>> \o manifest,
     spine |-> spine]

\* a package step that puts the toc item into self.manifest
generate_content_opf_inserts_toc ==
    /\ pc = "generate_content_opf"
    /\ manifest' = <<toc_item>> \o manifest
    /\ fs' = write_file(fs, "epub/OEBPS", Chars("content.opf"), content_opf)
    /\ pc' = "zip_epub"
    /\ UNCHANGED <<txt, books, current_volume, current_chapter, spine, metadata,
                   locals, archive, exc, calls, runs, hist>>

generate_content_opf ==
    /\ pc = "generate_content_opf"
    /\ fs' = write_file(fs, "epub/OEBPS", Chars("content.opf"), content_opf)
    /\ pc' = "zip_epub"
    /\ UNCHANGED <<txt, instance, locals, archive, exc, calls, runs, hist>>

(***************************************************************************)
(* zip_epub                                                                *)
(***************************************************************************)
\* the compression of a ZipFile opened without a compression argument
ZipFileCompression == "ZIP_STORED"

Reverse(s) == [k \in 1..Len(s) |-> s[Len(s) + 1 - k]]

\* os.path.relpath(os.path.join(root, file), 'epub')
arcname(root, file) ==
    LET path == Chars(root) \o <<"/">> \o file
    IN  SubSeq(path, Len(Chars("epub")) + 2, Len(path))

\* the inner loop of zip_epub over the files of one directory
walk_files(root, files) ==
    LET kept == SelectSeq(files, LAMBDA file : file.name # mimetype)
    IN  [k \in 1..Len(kept) |->
            [arcname |-> arcname(root, kept[k].name),
             compress_type |-> ZipFileCompression,
             data |-> kept[k].data]]

\* os.walk('epub'), top down; the order of a directory listing is the
\* file system's: creation order, or its reverse
walk(f, reversed) ==
    LET ls(d) == IF reversed THEN Reverse(f[d]) ELSE f[d]
        first == IF reversed THEN "epub/META-INF" ELSE "epub/OEBPS"
        second == IF reversed THEN "epub/OEBPS" ELSE "epub/META-INF"
    IN  walk_files("epub", ls("epub"))
        \o walk_files(first, ls(first))
        \o walk_files(second, ls(second))

\* the data of the file d/name
read_file(f, d, name) ==
    (CHOOSE file \in {f[d][k] : k \in 1..Len(f[d])} : file.name = name).data

\* the chapter documents and the package document of the run that ends
run_record ==
    LET es == enumerate_chapters(books, 1)
        names == {chapter_filename(es[k].vol_idx, es[k].chap_idx) : k \in 1..Len(es)}
    IN  [input |-> txt,
         chapters |-> {file \in {fs["epub/OEBPS"][k] : k \in 1..Len(fs["epub/OEBPS"])} :
                          file.name \in names},
         opf |-> read_file(fs, "epub/OEBPS", Chars("content.opf"))]

zip_epub ==
    /\ pc = "zip_epub"
    /\ \E reversed \in BOOLEAN :
         archive' = <<[arcname |-> mimetype,
                       compress_type |-> "ZIP_STORED",
                       data |-> read_file(fs, "epub", mimetype)]>>
                    \o walk(fs, reversed)
    /\ hist' = Append(hist, run_record)
    /\ pc' = "done"
    /\ UNCHANGED <<txt, instance, locals, fs, exc, calls, runs>>

(***************************************************************************)
(* Between runs: a new EpubGenerator is constructed, or the input file is  *)
(* cut short.                                                              *)
(***************************************************************************)
new_generator ==
    /\ pc \in {"done", "crashed"}
    /\ runs < MaxRuns
    /\ init_fields(books', current_volume', current_chapter', manifest', spine',
                   metadata')
    /\ pc' = "idle"
    /\ exc' = "none"
    /\ calls' = 0
    /\ UNCHANGED <<txt, locals, fs, archive, runs, hist>>

truncate_input ==
    /\ pc = "done"
    /\ runs < MaxRuns
    /\ txt' \in Truncations(txt)
    /\ UNCHANGED <<instance, locals, fs, archive, pc, exc, calls, runs, hist>>

\* the run of the program: generator.generate()
main == runs = 0 /\ generate

\* a further run, on the same instance if none was constructed since
rerun == runs < MaxRuns /\ generate

pipeline ==
    \/ parse_txt_line
    \/ parse_txt_raise
    \/ parse_txt_return
    \/ create_epub_structure
    \/ generate_chapters
    \/ generate_toc
    \/ generate_content_opf
    \/ zip_epub

Next == main \/ pipeline

Spec == Init /\ [][Next]_vars

SpecMeta == InitMeta /\ [][Next]_vars

\* a run in which parse_txt returns
NextImages ==
    \/ main
    \/ parse_txt_line
    \/ parse_txt_return
    \/ create_epub_structure
    \/ generate_chapters
    \/ generate_toc
    \/ generate_content_opf
    \/ zip_epub

SpecImages == InitImages /\ [][NextImages]_vars

NextRuns == rerun \/ pipeline \/ new_generator \/ truncate_input

SpecRuns == InitRuns /\ [][NextRuns]_vars

(***************************************************************************)
(* Notions the properties are stated with.                                 *)
(***************************************************************************)
\* the statements of generate() after generate_chapters has returned
AfterChapters == {"generate_toc", "generate_content_opf", "zip_epub", "done"}

\* the statements of generate() after generate_toc has returned
AfterToc == {"generate_content_opf", "zip_epub", "done"}

\* the number of chapters of the first v volumes of bs
RECURSIVE ChaptersUpTo(_, _)
ChaptersUpTo(bs, v) ==
    IF v = 0 THEN 0 ELSE ChaptersUpTo(bs, v - 1) + Len(bs[v].chapters)

TotalChapters(bs) == ChaptersUpTo(bs, Len(bs))

\* the identifier vol{N}_chap{M}
ChapterId(N, M) == Chars("vol") \o Str(N) \o Chars("_chap") \o Str(M)

\* the navigation points of the toc.ncx in the scratch tree
NavMap == read_file(fs, "epub/OEBPS", Chars("toc.ncx")).navMap

(***************************************************************************)
(* C1: after parse_txt and one call of generate_chapters on an instance,   *)
(* the manifest and the spine have one entry per Chapter, the idrefs of    *)
(* the spine are the ids of the manifest in the same order, and the entry  *)
(* of the M-th chapter of the N-th volume, at its place in volume-major,   *)
(* chapter-minor order, is vol{N}_chap{M}.                                 *)
(***************************************************************************)
C1_ManifestSpineOrder ==
    (calls = 1 /\ pc \in AfterChapters) =>
        /\ Len(manifest) = TotalChapters(books)
        /\ Len(spine) = TotalChapters(books)
        /\ \A k \in 1..Len(manifest) : spine[k].idref = manifest[k].id
        /\ \A N \in 1..Len(books) : \A M \in 1..Len(books[N].chapters) :
              manifest[ChaptersUpTo(books, N - 1) + M].id = ChapterId(N, M)

\* two volumes with a chapter each have had their entries generated
C1_Witness ==
    /\ calls = 1
    /\ pc = "generate_toc"
    /\ Len(books) = 2
    /\ Len(books[1].chapters) = 1
    /\ Len(books[2].chapters) = 1
    /\ Len(manifest) = 2

(***************************************************************************)
(* C2: the playOrder numbers written by generate_toc, in document order,   *)
(* are 1, 2, ..., K where K = number of Volumes + number of Chapters.      *)
(***************************************************************************)
C2_PlayOrderContiguous ==
    pc \in AfterToc =>
        /\ Len(NavMap) = Len(books) + TotalChapters(books)
        /\ \A k \in 1..Len(NavMap) : NavMap[k].playOrder = Str(k)

\* a table of contents of two volumes, the first one with a chapter
C2_Witness ==
    /\ pc = "generate_content_opf"
    /\ Len(books) >= 2
    /\ Len(books[1].chapters) >= 1
    /\ Len(NavMap) >= 3

(***************************************************************************)
(* C3: every navigation point written by generate_toc, also the point of   *)
(* a Volume without Chapters, refers to the href of a manifest entry of    *)
(* the same Book.                                                          *)
(***************************************************************************)
C3_NoDanglingNavPoint ==
    pc \in AfterToc =>
        \A k \in 1..Len(NavMap) :
            \E m \in 1..Len(manifest) : manifest[m].href = NavMap[k].src

(***************************************************************************)
(* C4: after parse_txt the number of Volumes is the number of input lines  *)
(* matching the volume-header pattern, and the number of Chapters is the   *)
(* number of input lines matching the chapter-header pattern (non-blank,   *)
(* not starting with a space or a full-width space, not a volume header,   *)
(* after a volume header).                                                 *)
(***************************************************************************)
\* the volume marker followed by a title
VolumeHeaderLine(line) ==
    /\ Len(line) > 5
    /\ SubSeq(line, 1, 5) = <<"[", "JUAN", "MING", "]", " ">>

ChapterHeaderLine(line) ==
    /\ ~VolumeHeaderLine(line)
    /\ \E k \in 1..Len(line) : line[k] \notin Whitespace
    /\ line[1] \notin {" ", "FWSP"}

Count(S) == Cardinality(S)

C4_CountsMatchHeaderLines ==
    pc = "create_epub_structure" =>
        /\ Len(books) = Count({k \in 1..Len(txt) : VolumeHeaderLine(txt[k])})
        /\ TotalChapters(books) =
               Count({k \in 1..Len(txt) :
                         /\ ChapterHeaderLine(txt[k])
                         /\ \E j \in 1..(k - 1) : VolumeHeaderLine(txt[j])})

\* line k of text t is read in the SCANNING state: it is not a delimiter
\* line and no metadata block is open when it is read
RECURSIVE InMetadataBlock(_, _)
InMetadataBlock(t, k) ==
    IF k = 1 THEN FALSE
    ELSE IF t[k - 1] = Delimiter THEN TRUE
    ELSE IF InMetadataBlock(t, k - 1)
              /\ Len(t[k - 1]) >= 6
              /\ SubSeq(t[k - 1], 1, 6) = <<"LQ", "SHU", "JI", "JIAN", "JIE", "FWCOLON">>
         THEN FALSE
    ELSE InMetadataBlock(t, k - 1)

Scanned(t, k) == t[k] # Delimiter /\ ~InMetadataBlock(t, k)

\* C4 as amended: only the lines read in the SCANNING state count, and the
\* instance is one that has parsed no text before
C4_CountsMatchScannedHeaderLines ==
    (calls = 1 /\ pc = "create_epub_structure") =>
        /\ Len(books) =
               Count({k \in 1..Len(txt) : Scanned(txt, k) /\ VolumeHeaderLine(txt[k])})
        /\ TotalChapters(books) =
               Count({k \in 1..Len(txt) :
                         /\ Scanned(txt, k)
                         /\ ChapterHeaderLine(txt[k])
                         /\ \E j \in 1..(k - 1) :
                               Scanned(txt, j) /\ VolumeHeaderLine(txt[j])})

\* a text with header lines inside and outside a metadata block was parsed
C4_Witness ==
    /\ calls = 1
    /\ pc = "create_epub_structure"
    /\ Len(books) = 1
    /\ TotalChapters(books) = 1
    /\ \E k \in 1..Len(txt) : ~Scanned(txt, k) /\ VolumeHeaderLine(txt[k])

(***************************************************************************)
(* C5: two runs of the pipeline on the same input write the same chapter   *)
(* documents and the same package document (the date apart), whether the   *)
(* second run is made on a new EpubGenerator or on the same instance.      *)
(***************************************************************************)
C5_Idempotent ==
    \A a \in DOMAIN hist : \A b \in DOMAIN hist :
        hist[a].input = hist[b].input =>
            /\ hist[a].chapters = hist[b].chapters
            /\ hist[a].opf = hist[b].opf

(***************************************************************************)
(* C6: after any sequence of runs sharing the scratch tree, the archive    *)
(* of the latest run holds exactly the chapter documents of that run's     *)
(* manifest: each chapter document in the archive is in the manifest and   *)
(* each manifest entry has its file in the archive.                        *)
(***************************************************************************)
ArchivedChapterDocuments ==
    {archive[k].arcname : k \in {n \in 1..Len(archive) : archive[n].data.kind = "xhtml"}}

C6_ArchiveMatchesManifest ==
    pc = "done" =>
        ArchivedChapterDocuments =
            {Chars("OEBPS/") \o manifest[k].href : k \in 1..Len(manifest)}

(***************************************************************************)
(* C7: in the archive written by zip_epub the mimetype entry is the first  *)
(* entry, is the only one of that name and is stored uncompressed; every   *)
(* other file of the scratch tree follows, compressed, under its path      *)
(* relative to the scratch root.                                           *)
(***************************************************************************)
ScratchFiles ==
    UNION { {Chars(d) \o <<"/">> \o fs[d][k].name : k \in 1..Len(fs[d])} : d \in DOMAIN fs }

C7_ArchiveLayout ==
    pc = "done" =>
        /\ archive[1].arcname = Chars("mimetype")
        /\ archive[1].compress_type = "ZIP_STORED"
        /\ \A k \in 2..Len(archive) :
              /\ archive[k].arcname # Chars("mimetype")
              /\ archive[k].compress_type # "ZIP_STORED"
              /\ Chars("epub/") \o archive[k].arcname \in ScratchFiles
        /\ \A path \in ScratchFiles :
              \E k \in 1..Len(archive) : Chars("epub/") \o archive[k].arcname = path

(***************************************************************************)
(* C8: in parse_txt a body line (blank or indented) read while there is    *)
(* no current Volume, or no current Chapter, is dropped: it changes        *)
(* neither the Book nor the two current pointers.                          *)
(***************************************************************************)
BodyLine(line) ==
    \/ \A k \in 1..Len(line) : line[k] \in Whitespace
    \/ line[1] \in {" ", "FWSP"}

\* parse_txt reads the line `line` in this step
Reads(line) ==
    /\ pc = "parse_txt"
    /\ i < Len(lines)
    /\ i' = i + 1
    /\ lines[i + 1] = line \o <<"NL">>

C8_BodyLineDropped ==
    [][\A line \in LinePool :
          (/\ Reads(line)
           /\ BodyLine(line)
           /\ (current_volume = None \/ current_chapter = None))
          => UNCHANGED <<books, current_volume, current_chapter>>]_vars

\* an indented line was read right after a volume header
C8_Witness ==
    /\ pc = "parse_txt"
    /\ i >= 2
    /\ ~metadata_section
    /\ VolumeHeaderLine(RStripNL(lines[i - 1]))
    /\ RStripNL(lines[i]) = <<" ", "p", "FWCOLON">>
    /\ current_volume # None
    /\ current_chapter = None
    /\ books[Len(books)].chapters = <<>>

(***************************************************************************)
(* C9: a blank or whitespace-only line read inside a Chapter is kept as a  *)
(* content entry by parse_txt, generate_chapters renders it as a paragraph *)
(* holding one non-breaking space, and the chapter document has as many    *)
(* paragraphs as the Chapter has content lines.                            *)
(***************************************************************************)
\* the number of places of text t where the literal lit starts
Occurrences(t, lit) ==
    Count({p \in 1..Len(t) : p + Len(lit) - 1 <= Len(t)
                              /\ SubSeq(t, p, p + Len(lit) - 1) = lit})

Blank(line) == \A k \in 1..Len(line) : line[k] \in Whitespace

ChapterDocument(N, M) ==
    read_file(fs, "epub/OEBPS", ChapterId(N, M) \o Chars(".xhtml"))

\* every chapter document has one paragraph per content line, the blank
\* lines as paragraphs of one non-breaking space
ParagraphsMatchContent ==
    pc \in AfterChapters =>
        \A N \in 1..Len(books) : \A M \in 1..Len(books[N].chapters) :
            LET content == books[N].chapters[M].content
                body == ChapterDocument(N, M).body
            IN  /\ Occurrences(body, Chars("<p>")) = Len(content)
                /\ Occurrences(body, Chars("</p>")) = Len(content)
                /\ Occurrences(body, Chars("<p>") \o <<"&#160;">> \o Chars("</p>"))
                     = Count({k \in 1..Len(content) : Blank(content[k])})

\* the line read in this step is appended to the current Chapter
ContentAppended(line) ==
    LET N == current_chapter[1]
        M == current_chapter[2]
    IN  books'[N].chapters[M].content = Append(books[N].chapters[M].content, line)

C9_BlankLinesKeptAndRendered ==
    /\ []ParagraphsMatchContent
    /\ [][\A line \in LinePool :
            (Reads(line) /\ Blank(line) /\ current_chapter # None)
            => ContentAppended(line)]_vars

\* C9 as amended: the blank lines kept are those read in the SCANNING
\* state; a blank line inside a metadata block is ignored
C9_ScannedBlankLinesKeptAndRendered ==
    /\ []ParagraphsMatchContent
    /\ [][\A line \in LinePool :
            (Reads(line) /\ Blank(line) /\ ~metadata_section /\ current_chapter # None)
            => ContentAppended(line)]_vars

\* the document of a chapter with a blank line and a text line was written
C9_Witness ==
    /\ pc = "generate_toc"
    /\ \E N \in 1..Len(books) : \E M \in 1..Len(books[N].chapters) :
          LET content == books[N].chapters[M].content
          IN  /\ Len(content) = 2
              /\ \E k \in 1..2 : Blank(content[k])
              /\ \E k \in 1..2 : ~Blank(content[k])

(***************************************************************************)
(* C10: a description-marker line of the metadata block that is the last   *)
(* line of the input is guarded: parse_txt reads no index past the end of  *)
(* the line list; it ends in a parse error of its own or leaves the        *)
(* description empty.                                                      *)
(***************************************************************************)
C10_DescriptionMarkerGuarded == exc # "IndexError"

(***************************************************************************)
(* C11: every Chapter produced by parse_txt has a non-empty title and      *)
(* lies exactly once in exactly one Volume, and every Volume lies exactly  *)
(* once in the Book: a line read adds at most one Volume or one Chapter,   *)
(* a new Volume comes last and without Chapters, a new Chapter comes once, *)
(* last in one Volume, and what was in the Book stays where it was.        *)
(***************************************************************************)
TitlesNonEmpty ==
    \A N \in 1..Len(books) : \A M \in 1..Len(books[N].chapters) :
        books[N].chapters[M].title # <<>>

\* the Volumes and Chapters of the Book stay in their places in this step
BookKept ==
    /\ Len(books') >= Len(books)
    /\ \A N \in 1..Len(books) :
          /\ books'[N].title = books[N].title
          /\ Len(books'[N].chapters) >= Len(books[N].chapters)
          /\ \A M \in 1..Len(books[N].chapters) :
                books'[N].chapters[M].title = books[N].chapters[M].title

\* this step adds one Volume without Chapters, or one Chapter, or nothing
OneAdded ==
    /\ Len(books') + TotalChapters(books') <= Len(books) + TotalChapters(books) + 1
    /\ \A N \in (Len(books) + 1)..Len(books') : books'[N].chapters = <<>>

C11_ChaptersOwnedOnce ==
    /\ []TitlesNonEmpty
    /\ [][pc = "parse_txt" => (BookKept /\ OneAdded)]_vars

\* a text with two volumes of one chapter each was parsed
C11_Witness ==
    /\ pc = "create_epub_structure"
    /\ Len(books) = 2
    /\ Len(books[1].chapters) = 1
    /\ Len(books[2].chapters) = 1

(***************************************************************************)
(* C12: for a text of a delimiter line, a title-marker line, an            *)
(* author-marker line, a description-marker line and a text line,          *)
(* parse_txt sets title and author to what follows the marker, less the    *)
(* closing quote at the end and nothing else, and description to the       *)
(* trimmed text line; a field without marker line keeps its default.       *)
(***************************************************************************)
\* the lines of the text that begin with the marker
MarkerLines(marker) ==
    {k \in 1..Len(txt) : Len(txt[k]) >= Len(marker)
                          /\ SubSeq(txt[k], 1, Len(marker)) = marker}

\* the line without its first n characters and without a closing quote at
\* its end
Remainder(line, n) ==
    LET rest == SubSeq(line, n + 1, Len(line))
    IN  IF rest # <<>> /\ rest[Len(rest)] = "RQ"
        THEN SubSeq(rest, 1, Len(rest) - 1)
        ELSE rest

\* the value of a field: what its marker line gives, or else its default
FieldValue(marker, default) ==
    IF MarkerLines(marker) = {} THEN default
    ELSE Remainder(txt[CHOOSE k \in MarkerLines(marker) : TRUE], Len(marker))

Trimmed(line) ==
    LET inner == {k \in 1..Len(line) : line[k] \notin Whitespace}
    IN  IF inner = {} THEN <<>>
        ELSE SubSeq(line, CHOOSE k \in inner : \A j \in inner : k <= j,
                          CHOOSE k \in inner : \A j \in inner : k >= j)

C12_MetadataExtracted ==
    pc = "create_epub_structure" =>
        /\ metadata.title = FieldValue(<<"LQ", "SHU", "MING", "FWCOLON">>, <<"D", "T">>)
        /\ metadata.author = FieldValue(<<"LQ", "ZUO", "ZHE", "FWCOLON">>, <<"D", "A">>)
        /\ metadata.description = Trimmed(txt[Len(txt)])

(***************************************************************************)
(* C13: process_images is the reference transformer: every full-width      *)
(* colon becomes an ASCII colon; every image tag (name in any case) whose  *)
(* width and height are digit sequences separated by commas, full-width    *)
(* commas or spaces becomes an image element with that src, width and      *)
(* height; all other text passes through unchanged, also bracketed text    *)
(* whose dimensions are not so separated.                                  *)
(***************************************************************************)
\* the tag at the head of t, as the reference reads it: digits, at least
\* one separator, digits, the bracket, then the text up to the closing tag
RefTag(t) ==
    LET nw == Run(t, 6, Digits)
        ns == Run(t, 6 + nw, {",", "FWCOMMA", " "})
        nh == Run(t, 6 + nw + ns, Digits)
        rb == 6 + nw + ns + nh
        opened == /\ LiteralAt(t, 1, Chars("[img="))
                  /\ nw >= 1 /\ ns >= 1 /\ nh >= 1
                  /\ rb <= Len(t) /\ t[rb] = "]"
        e == IF opened THEN FindClose(t, rb + 1) ELSE 0
    IN  IF e = 0 THEN [ok |-> FALSE]
        ELSE [ok |-> TRUE,
              width |-> SubSeq(t, 6, 5 + nw),
              height |-> SubSeq(t, 6 + nw + ns, rb - 1),
              src |-> SubSeq(t, rb + 1, e - 1),
              len |-> e + 5]

RECURSIVE RefRewrite(_)
RefRewrite(t) ==
    IF t = <<>> THEN <<>>
    ELSE LET tag == RefTag(t)
         IN  IF tag.ok
             THEN Chars("<img src=\"") \o tag.src \o Chars("\" width=\"") \o tag.width
                    \o Chars("\" height=\"") \o tag.height \o Chars("\"/>")
                    \o RefRewrite(SubSeq(t, tag.len + 1, Len(t)))
             ELSE <<Head(t)>> \o RefRewrite(Tail(t))

Reference(text) ==
    RefRewrite([k \in 1..Len(text) |-> IF text[k] = "FWCOLON" THEN ":" ELSE text[k]])

C13_ProcessImagesIsReference ==
    pc \in AfterChapters =>
        \A N \in 1..Len(books) : \A M \in 1..Len(books[N].chapters) :
            LET content == books[N].chapters[M].content
            IN  (Len(content) = 1 /\ ~Blank(content[1])) =>
                    ChapterDocument(N, M).body
                      = Chars("<p>") \o Reference(content[1]) \o Chars("</p>")

(***************************************************************************)
(* C14: in parse_txt a line equal to the delimiter puts the parser in the  *)
(* metadata block from either state; in the block a line that is no title, *)
(* author or description marker changes nothing, no line changes the Book  *)
(* or the current volume and chapter pointers (a volume header included),  *)
(* and the parser leaves the block only on a description-marker line.      *)
(***************************************************************************)
DelimiterLine(line) ==
    line = <<"BAR", "BAR", "BAR", "BAR", "BAR", "BAR", "BAR", "BAR", "BAR">>

Prefixed(line, marker) ==
    Len(line) >= Len(marker) /\ SubSeq(line, 1, Len(marker)) = marker

DescriptionMarkerLine(line) ==
    Prefixed(line, <<"LQ", "SHU", "JI", "JIAN", "JIE", "FWCOLON">>)

MetadataMarkerLine(line) ==
    \/ Prefixed(line, <<"LQ", "SHU", "MING", "FWCOLON">>)
    \/ Prefixed(line, <<"LQ", "ZUO", "ZHE", "FWCOLON">>)
    \/ DescriptionMarkerLine(line)

C14_MetadataBlock ==
    [][\A line \in LinePool :
          Reads(line) =>
              /\ DelimiterLine(line) =>
                     /\ metadata_section'
                     /\ UNCHANGED <<books, current_volume, current_chapter, metadata>>
              /\ metadata_section =>
                     /\ UNCHANGED <<books, current_volume, current_chapter>>
                     /\ ~MetadataMarkerLine(line) =>
                            (metadata_section' /\ UNCHANGED metadata)
                     /\ ~metadata_section' => DescriptionMarkerLine(line)]_vars

\* in the block, after an author line, a volume header was read and the
\* Book is still empty
C14_Witness ==
    /\ pc = "parse_txt"
    /\ i = 3
    /\ RStripNL(lines[1]) = Delimiter
    /\ MetadataMarkerLine(RStripNL(lines[2]))
    /\ ~DescriptionMarkerLine(RStripNL(lines[2]))
    /\ VolumeHeaderLine(RStripNL(lines[3]))
    /\ metadata_section
    /\ books = <<>>
    /\ current_volume = None

(***************************************************************************)
(* C15: while scanning, a line matching the volume-header pattern appends  *)
(* one new Volume with that title and no chapters at the end of the Book,  *)
(* makes it the current Volume and sets the current Chapter to none,       *)
(* whatever the pointers were; it adds no Chapter and no content line.     *)
(***************************************************************************)
C15_VolumeHeaderAppendsVolume ==
    [][\A line \in LinePool :
          (/\ Reads(line)
           /\ ~metadata_section
           /\ VolumeHeaderLine(line))
          => /\ books' = Append(books, [title |-> SubSeq(line, 6, Len(line)),
                                        chapters |-> <<>>])
             /\ current_volume' = <<Len(books) + 1>>
             /\ current_chapter' = None]_vars

\* a second volume header was read while a Chapter was current
C15_Witness ==
    /\ pc = "parse_txt"
    /\ i >= 3
    /\ ~metadata_section
    /\ VolumeHeaderLine(RStripNL(lines[i]))
    /\ Len(books) = 2
    /\ Len(books[1].chapters) = 1
    /\ books[2] = [title |-> <<"A">>, chapters |-> <<>>]
    /\ current_volume = <<2>>
    /\ current_chapter = None

(***************************************************************************)
(* C16: while scanning with a current Volume, a non-volume line starts a   *)
(* new Chapter (title the trimmed line, empty content, last in the current *)
(* Volume, made current) if and only if its trimmed text is non-empty and  *)
(* the raw line does not start with a space or full-width space; every     *)
(* other such line is appended untrimmed to the current Chapter's content  *)
(* when there is one; so each Chapter's content is exactly the raw         *)
(* non-header lines between its header and the next chapter or volume      *)
(* header, in source order.                                                *)
(***************************************************************************)
ChapterStarted(line) ==
    LET N == current_volume[1]
    IN  /\ books' = [books EXCEPT ![N].chapters =
                        Append(@, [title |-> Trimmed(line), content |-> <<>>])]
        /\ current_chapter' = <<N, Len(books[N].chapters) + 1>>
        /\ UNCHANGED current_volume

HeaderByShape(line) ==
    /\ Trimmed(line) # <<>>
    /\ line[1] \notin {" ", "FWSP"}

\* what a line read while scanning with a current Volume does
ScanStep(line) ==
    IF HeaderByShape(line)
    THEN ChapterStarted(line)
    ELSE IF current_chapter # None
    THEN ContentAppended(line) /\ UNCHANGED <<current_volume, current_chapter>>
    ELSE UNCHANGED <<books, current_volume, current_chapter>>

\* the n-th smallest member of a set of line numbers
Nth(S, n) == CHOOSE k \in S : Cardinality({j \in S : j <= k}) = n

\* the lines of t at the line numbers S, in source order
LinesAt(t, S) == [n \in 1..Cardinality(S) |-> t[Nth(S, n)]]

\* the line numbers after header h up to the next header among the headers H
UpToNextHeader(t, H, h) ==
    {k \in (h + 1)..Len(t) : \A j \in H : j > h => k < j}

\* the statement with every line of the text taken as read while scanning
AllHeaders == {k \in 1..Len(txt) : VolumeHeaderLine(txt[k]) \/ ChapterHeaderLine(txt[k])}

ContentBetweenHeaders ==
    (calls = 1 /\ pc = "create_epub_structure") =>
        \A N \in 1..Len(books) : \A M \in 1..Len(books[N].chapters) :
            \E h \in AllHeaders :
                /\ ChapterHeaderLine(txt[h])
                /\ books[N].chapters[M].title = Trimmed(txt[h])
                /\ books[N].chapters[M].content
                     = LinesAt(txt, UpToNextHeader(txt, AllHeaders, h))

C16_ChapterHeaderIff ==
    /\ []ContentBetweenHeaders
    /\ [][\A line \in LinePool :
             (/\ Reads(line)
              /\ ~metadata_section
              /\ current_volume # None
              /\ ~VolumeHeaderLine(line))
             => ScanStep(line)]_vars

\* C16 as amended: the delimiter line is no such line, and only the lines
\* read while scanning are headers or content
ScannedHeaders ==
    {k \in 1..Len(txt) : /\ Scanned(txt, k)
                         /\ VolumeHeaderLine(txt[k]) \/ ChapterHeaderLine(txt[k])}

ScannedChapterHeaders ==
    {k \in ScannedHeaders :
        /\ ChapterHeaderLine(txt[k])
        /\ \E j \in ScannedHeaders : j < k /\ VolumeHeaderLine(txt[j])}

ContentBetweenScannedHeaders ==
    (calls = 1 /\ pc = "create_epub_structure") =>
        LET headers == ScannedHeaders
            chapter_headers == ScannedChapterHeaders
        IN  \A N \in 1..Len(books) : \A M \in 1..Len(books[N].chapters) :
                LET h == Nth(chapter_headers, ChaptersUpTo(books, N - 1) + M)
                    between == {k \in UpToNextHeader(txt, headers, h) : Scanned(txt, k)}
                IN  /\ books[N].chapters[M].title = Trimmed(txt[h])
                    /\ books[N].chapters[M].content = LinesAt(txt, between)

C16_ScannedChapterHeaderIff ==
    /\ []ContentBetweenScannedHeaders
    /\ [][\A line \in LinePool :
             (/\ Reads(line)
              /\ ~DelimiterLine(line)
              /\ ~metadata_section
              /\ current_volume # None
              /\ ~VolumeHeaderLine(line))
             => ScanStep(line)]_vars

\* a header, an indented line, a blank line and a second header were read
C16_Witness ==
    /\ calls = 1
    /\ pc = "create_epub_structure"
    /\ Len(books) = 1
    /\ Len(books[1].chapters) = 2
    /\ Len(books[1].chapters[1].content) = 1
    /\ books[1].chapters[1].content[1] = <<" ", "p", "FWCOLON">>

(***************************************************************************)
(* C17: navigation order is spine order: the targets of the chapter-level  *)
(* navigation points of the toc.ncx, in playOrder, are the manifest hrefs  *)
(* in spine order, and the navigation point of each Volume targets the     *)
(* document of the first Chapter of that Volume.                           *)
(***************************************************************************)
\* the navigation points of one depth, in the order of the navMap, which
\* is the order of their playOrder numbers
PointsAtDepth(d) == SelectSeq(NavMap, LAMBDA point : point.depth = d)

\* the href of the manifest entry a spine entry refers to
SpineHref(k) ==
    manifest[CHOOSE m \in 1..Len(manifest) : manifest[m].id = spine[k].idref].href

ChapterPointsFollowSpine ==
    /\ Len(PointsAtDepth(2)) = Len(spine)
    /\ \A k \in 1..Len(spine) : PointsAtDepth(2)[k].src = SpineHref(k)

VolumePointsTargetFirstChapter ==
    /\ Len(PointsAtDepth(1)) = Len(books)
    /\ \A N \in 1..Len(books) :
           /\ Len(books[N].chapters) >= 1
           /\ PointsAtDepth(1)[N].src = SpineHref(ChaptersUpTo(books, N - 1) + 1)

C17_NavigationOrderIsSpineOrder ==
    pc \in AfterToc => (ChapterPointsFollowSpine /\ VolumePointsTargetFirstChapter)

(***************************************************************************)
(* C18: after parse_txt has returned, generate_chapters, generate_toc,     *)
(* generate_content_opf and zip_epub leave the Metadata record and the     *)
(* Book unchanged; only generate_chapters changes the manifest and the     *)
(* spine, generate_toc and generate_content_opf leave them unchanged.      *)
(***************************************************************************)
GeneratorSteps == {"generate_chapters", "generate_toc", "generate_content_opf", "zip_epub"}

C18_GeneratorsFrame ==
    [][/\ pc \in GeneratorSteps => UNCHANGED <<metadata, books>>
       /\ pc # "generate_chapters" => UNCHANGED <<manifest, spine>>]_vars

\* the four steps have run on a Book of two Chapters with a content line
C18_Witness ==
    /\ pc = "done"
    /\ Len(manifest) = 2
    /\ Len(spine) = 2
    /\ TotalChapters(books) = 2
    /\ \E N \in 1..Len(books) : \E M \in 1..Len(books[N].chapters) :
           books[N].chapters[M].content # <<>>
    /\ archive # <<>>

(***************************************************************************)
(* C19: at every point of parse_txt, after any prefix of the lines and     *)
(* across repeated calls on one instance: a current Volume that is not     *)
(* none is the last Volume of the Book, and a current Chapter that is not  *)
(* none is the last Chapter of the current Volume, which is not none.      *)
(***************************************************************************)
C19_CurrentPointersAreLast ==
    pc = "parse_txt" =>
        /\ current_volume # None => current_volume = <<Len(books)>>
        /\ current_chapter # None =>
               /\ current_volume # None
               /\ current_chapter
                    = <<current_volume[1], Len(books[current_volume[1]].chapters)>>

\* the second call on an instance has read a chapter header of its second
\* Volume
C19_Witness ==
    /\ calls = 2
    /\ pc = "parse_txt"
    /\ i >= 2
    /\ Len(books) = 2
    /\ current_volume = <<2>>
    /\ current_chapter = <<2, 1>>

(***************************************************************************)
(* C20: no input line contributes to both the Metadata record and the      *)
(* Book: the line after a description marker, taken as the description,    *)
(* is not also classified by the scanning rules; it creates no Volume, no  *)
(* Chapter and no content line and does not open the metadata block again. *)
(***************************************************************************)
\* the step reads the line after a description marker that was read inside
\* a metadata block, that is the line taken as Metadata.description
ReadsDescriptionLine ==
    /\ pc = "parse_txt"
    /\ calls = 1
    /\ 1 <= i
    /\ i < Len(lines)
    /\ i' = i + 1
    /\ InMetadataBlock(txt, i)
    /\ DescriptionMarkerLine(txt[i])

C20_DescriptionLineNotScanned ==
    [][ReadsDescriptionLine =>
          /\ UNCHANGED <<books, current_volume, current_chapter>>
          /\ ~metadata_section']_vars

====
